---------------------------- MODULE Spec2Model ----------------------------
(***************************************************************************)
(* A model of the two spreadsheet-analysis services of this repository:    *)
(*                                                                         *)
(*   agent_bot/main.py  the chat service: POST /upload stores a decoded    *)
(*                      table in the module-level slot _dataframe, and     *)
(*                      POST /chat dispatches a free-text command on it;   *)
(*   app/main.py        the direct service: POST /analyze decodes the file *)
(*                      of the request and runs the task named in it.      *)
(*                                                                         *)
(* Text that the code parses (chat messages, task names, file names,       *)
(* column names) is a sequence of one-character strings, so that strip,    *)
(* lower, split, startswith and endswith are computed and not assumed.     *)
(* A cell of a table is <<>> when missing and <<v>> when it holds v.       *)
(***************************************************************************)
EXTENDS Integers, Sequences, FiniteSets, TLC

VARIABLES svc, environ, _dataframe, pending, req, resp, calls, decodes, lastUpload

vars == <<svc, environ, _dataframe, pending, req, resp, calls, decodes, lastUpload>>

(***************************************************************************)
(* Bounds of the model.                                                    *)
(***************************************************************************)
\* columns of a one-row table
MaxCols == 5
\* rows of a single-column table
MaxRows == 2
\* whitespace-delimited tokens that follow the first token of a chat message
MaxArgs == 2
\* requests of the chat service that have arrived and whose handler has not run
MaxPending == 2

(***************************************************************************)
(* Python str methods, on sequences of one-character strings.              *)
(***************************************************************************)
UpperChars ==
    << "A","B","C","D","E","F","G","H","I","J","K","L","M",
       "N","O","P","Q","R","S","T","U","V","W","X","Y","Z" >>

LowerChars ==
    << "a","b","c","d","e","f","g","h","i","j","k","l","m",
       "n","o","p","q","r","s","t","u","v","w","x","y","z" >>

\* the lower-case letter of each upper-case letter
ToLower ==
    [c \in {UpperChars[i] : i \in 1..Len(UpperChars)} |->
        LowerChars[CHOOSE i \in 1..Len(UpperChars) : UpperChars[i] = c]]

lowerChar(c) == IF c \in DOMAIN ToLower THEN ToLower[c] ELSE c

\* str.lower()
lower(s) == [i \in 1..Len(s) |-> lowerChar(s[i])]

isspace(c) == c \in {" ", "\t"}

\* str.strip(): leading and trailing whitespace removed
strip(s) ==
    LET keep == {i \in 1..Len(s) : ~isspace(s[i])}
    IN  IF keep = {} THEN <<>>
        ELSE LET first == CHOOSE i \in keep : \A j \in keep : i <= j
                 last  == CHOOSE i \in keep : \A j \in keep : j <= i
             IN  SubSeq(s, first, last)

\* str.startswith(p)
startswith(s, p) == Len(s) >= Len(p) /\ SubSeq(s, 1, Len(p)) = p

\* str.endswith(p)
endswith(s, p) == Len(s) >= Len(p) /\ SubSeq(s, Len(s) - Len(p) + 1, Len(s)) = p

\* str.split() with no separator: the maximal runs of non-whitespace
RECURSIVE split(_)
split(s) ==
    IF s = <<>> THEN <<>>
    ELSE IF isspace(s[1]) THEN split(Tail(s))
    ELSE LET stops == {i \in 1..Len(s) : isspace(s[i])}
             stop  == IF stops = {} THEN Len(s) + 1
                      ELSE CHOOSE i \in stops : \A j \in stops : i <= j
         IN  <<SubSeq(s, 1, stop - 1)>> \o split(SubSeq(s, stop, Len(s)))

\* str.rsplit(".", 1)[0]: the text before the last "." (all of it when there is none)
rsplitStem(s) ==
    LET dots == {i \in 1..Len(s) : s[i] = "."}
    IN  IF dots = {} THEN s
        ELSE SubSeq(s, 1, (CHOOSE i \in dots : \A j \in dots : j <= i) - 1)

\* the text of the words the code compares against
W_summary   == <<"s","u","m","m","a","r","y">>
W_clean     == <<"c","l","e","a","n">>
W_describe  == <<"d","e","s","c","r","i","b","e">>
W_visualize == <<"v","i","s","u","a","l","i","z","e">>
W_forecast  == <<"f","o","r","e","c","a","s","t">>
W_target    == <<"t","a","r","g","e","t","=">>
W_xlsx      == <<".","x","l","s","x">>
W_xls       == <<".","x","l","s">>
W_csv       == <<".","c","s","v">>

Keywords == {W_summary, W_clean, W_describe, W_visualize, W_forecast}

(***************************************************************************)
(* Tables (pandas DataFrames).  A table is a sequence of columns; a column *)
(* has a name, the kind character of its dtype and its cells.  The cells   *)
(* of numeric columns hold integers; the cells of object columns hold      *)
(* interned text, 0 being the empty string.                                *)
(***************************************************************************)
Missing == <<>>

isnull(cell) == cell = Missing

Present(cells) == {i \in 1..Len(cells) : ~isnull(cells[i])}

\* dtype.kind in "biufc"
KindIsBiufc(kind) == kind \in {"b", "i", "u", "f", "c"}

\* pd.api.types.is_numeric_dtype
is_numeric_dtype(kind) == kind \in {"b", "i", "u", "f", "c"}

\* select_dtypes(include="number"): the numpy number kinds, bool not among them
KindIsNumber(kind) == kind \in {"i", "u", "f", "c"}

\* df.columns
columns(df) == [i \in 1..Len(df) |-> df[i].name]

\* df.shape[0]
nrows(df) == IF df = <<>> THEN 0 ELSE Len(df[1].cells)

RECURSIVE SumOver(_, _)
SumOver(f, S) ==
    IF S = {} THEN 0
    ELSE LET i == CHOOSE j \in S : TRUE IN f[i] + SumOver(f, S \ {i})

\* the values of the non-missing cells, in ascending order
RECURSIVE SortedValues(_, _)
SortedValues(cells, S) ==
    IF S = {} THEN <<>>
    ELSE LET i == CHOOSE j \in S : \A k \in S : cells[j][1] <= cells[k][1]
         IN  <<cells[i][1]>> \o SortedValues(cells, S \ {i})

\* Series.median(): skips missing cells; missing when nothing is left; the
\* mean of the two middle values when their number is even
median(cells) ==
    LET vs == SortedValues(cells, Present(cells))
        n  == Len(vs)
    IN  IF n = 0 THEN Missing
        ELSE IF n % 2 = 1 THEN <<vs[(n + 1) \div 2]>>
        ELSE <<(vs[n \div 2] + vs[n \div 2 + 1]) \div 2>>

\* Series.mode(): the most frequent non-missing values, ascending
mode(cells) ==
    LET P        == Present(cells)
        count(v) == Cardinality({i \in P : cells[i][1] = v})
        vals     == {cells[i][1] : i \in P}
        best     == {v \in vals : \A w \in vals : count(w) <= count(v)}
        bestAt   == {CHOOSE i \in P : cells[i][1] = v : v \in best}
    IN  SortedValues(cells, bestAt)

\* Series.fillna(value): a missing value fills nothing
fillna(cells, value) ==
    [i \in 1..Len(cells) |-> IF isnull(cells[i]) THEN value ELSE cells[i]]

RECURSIVE gcd(_, _)
gcd(a, b) == IF b = 0 THEN a ELSE gcd(b, a % b)

\* Series.mean(): skips missing cells; the exact quotient sum/count as a
\* reduced fraction <<numerator, denominator>>, missing when nothing is left
mean(cells) ==
    LET P == Present(cells)
        s == SumOver([i \in P |-> cells[i][1]], P)
        n == Cardinality(P)
        g == gcd(s, n)
    IN  IF n = 0 THEN Missing ELSE <<s \div g, n \div g>>


(***************************************************************************)
(* The inputs the model draws from.                                        *)
(***************************************************************************)
\* the name of the i-th column of a table: "a", "Rev", "c", "d", ...
ColName(i) == IF i = 2 THEN <<"R","e","v">> ELSE <<LowerChars[i]>>

\* dtype kinds of the columns read_csv and read_excel produce here
Kinds == {"f", "O"}

\* sample cell values of a column of a kind
Vals(kind) == IF kind = "f" THEN {0, 2} ELSE {1, 2}

\* one-row tables without missing cells, of up to MaxCols columns
WideTables ==
    UNION { { [i \in 1..n |-> [name |-> ColName(i), kind |-> ks[i],
                               cells |-> << <<2>> >>]] : ks \in [1..n -> Kinds] }
            : n \in 0..MaxCols }

\* single-column tables of up to MaxRows rows, any cell of which may be missing
TallTables ==
    UNION { { << [name |-> ColName(1), kind |-> k, cells |-> cs] >> :
                cs \in [1..r -> {Missing} \cup { <<v>> : v \in Vals(k) }] }
            : <<k, r>> \in Kinds \X (1..MaxRows) }

Tables == WideTables \cup TallTables

F_csv  == <<"d",".","c","s","v">>
F_XLSX == <<"D",".","X","L","S","X">>
F_xls  == <<"d",".","x","l","s">>
F_txt  == <<"d",".","t","x","t">>

Filenames == {F_csv, F_XLSX, F_xls, F_txt}

\* An uploaded file: its name and what its bytes are, the CSV text or the
\* workbook of a table, or bytes that are neither.  CSV text has a header
\* line, so it has at least one column.
Files ==
    { [filename |-> fn, format |-> "csv", table |-> t] :
        fn \in Filenames, t \in Tables \ {<<>>} }
    \cup { [filename |-> fn, format |-> "xlsx", table |-> t] :
        fn \in Filenames, t \in Tables }
    \cup { [filename |-> fn, format |-> "junk", table |-> <<>>] : fn \in Filenames }

\* first tokens of chat messages
Heads ==
    { W_summary, <<"C","l","e","a","n">>, W_clean \o <<"u","p">>, W_describe,
      W_visualize, W_forecast, <<"F","o","r","e","c","a","s","t">>,
      <<"h","i">>, W_target \o <<"a">> }

\* later tokens of chat messages
Args ==
    { W_target, W_target \o ColName(2), <<"T","A","R","G","E","T","=">> \o ColName(1),
      ColName(1) }

RECURSIVE JoinTokens(_)
JoinTokens(ts) ==
    IF ts = <<>> THEN <<>> ELSE <<" ">> \o ts[1] \o JoinTokens(Tail(ts))

\* chat messages: optional leading whitespace, a first token, up to MaxArgs
\* later tokens; and the empty message
Messages ==
    { <<>> } \cup
    { lead \o h \o JoinTokens(as) :
        lead \in { <<>>, <<" ", "\t">> }, h \in Heads,
        as \in UNION { [1..n -> Args] : n \in 0..MaxArgs } }

(***************************************************************************)
(* Responses.                                                              *)
(***************************************************************************)
XlsxMediaType == "application/vnd.openxmlformats-officedocument.spreadsheetml.sheet"

JSONResponse(content) ==
    [class |-> "JSONResponse", status_code |-> 200,
     media_type |-> "application/json", headers |-> {}, content |-> content]

StreamingResponse(content, media_type, headers) ==
    [class |-> "StreamingResponse", status_code |-> 200,
     media_type |-> media_type, headers |-> headers, content |-> content]

\* raise HTTPException(status_code, detail), as the response it becomes
HTTPException(status_code, detail) ==
    [class |-> "HTTPException", status_code |-> status_code,
     media_type |-> "application/json", headers |-> {},
     content |-> [detail |-> detail]]

\* an exception no handler catches: the framework answers 500
ServerError(detail) ==
    [class |-> "Exception", status_code |-> 500,
     media_type |-> "text/plain", headers |-> {}, content |-> [detail |-> detail]]

\* a dict a function returns, before the route wraps it
Dict(content) == [class |-> "dict", content |-> content]

(***************************************************************************)
(* agent_bot/main.py: the helper functions.                                *)
(***************************************************************************)
\* pd.read_excel / pd.read_csv on the bytes of a file: the table, or a raise
read_excel(file) ==
    IF file.format = "xlsx" THEN [ok |-> TRUE, df |-> file.table]
    ELSE [ok |-> FALSE, df |-> <<>>]

read_csv(file) ==
    IF file.format = "csv" THEN [ok |-> TRUE, df |-> file.table]
    ELSE [ok |-> FALSE, df |-> <<>>]

\* the decoders load_dataframe tries on a file
load_decodes(file) ==
    LET filename == lower(file.filename)
    IN  IF endswith(filename, W_xlsx) \/ endswith(filename, W_xls) THEN <<"read_excel">>
        ELSE IF endswith(filename, W_csv) THEN <<"read_csv">>
        ELSE <<>>

\* load_dataframe: [ok |-> TRUE, df] or [ok |-> FALSE, error]: every raise
\* inside the try becomes HTTPException(400)
load_dataframe(file) ==
    LET filename == lower(file.filename)
        got == IF endswith(filename, W_xlsx) \/ endswith(filename, W_xls)
               THEN read_excel(file)
               ELSE IF endswith(filename, W_csv) THEN read_csv(file)
               ELSE [ok |-> FALSE, df |-> <<>>]
    IN  IF got.ok THEN [ok |-> TRUE, df |-> got.df, error |-> <<>>]
        ELSE [ok |-> FALSE, df |-> <<>>,
              error |-> HTTPException(400, "Failed to read file")]

analyze_summary(df) ==
    [shape |-> [rows |-> nrows(df), columns |-> Len(df)],
     columns |-> columns(df),
     missing_values |->
        SumOver([i \in 1..Len(df) |->
                    Len(df[i].cells) - Cardinality(Present(df[i].cells))],
                1..Len(df)),
     dtypes |-> [i \in 1..Len(df) |-> <<df[i].name, df[i].kind>>]]

\* the copy analyze_clean fills: numeric columns with the median, the others
\* with the first mode, or "" (interned as 0) when there is none
cleaned_table(df) ==
    [i \in 1..Len(df) |->
        IF KindIsBiufc(df[i].kind)
        THEN [df[i] EXCEPT !.cells = fillna(df[i].cells, median(df[i].cells))]
        ELSE LET mode_series == mode(df[i].cells)
             IN  [df[i] EXCEPT !.cells =
                    fillna(df[i].cells,
                           IF mode_series # <<>> THEN <<mode_series[1]>> ELSE <<0>>)]]

analyze_clean(df) ==
    StreamingResponse(
        [xlsx |-> cleaned_table(df)], XlsxMediaType,
        { <<"Content-Disposition", <<"attachment; filename=", "cleaned_data.xlsx">> >> })

\* analyze_describe: DataFrame.describe raises ValueError on a table without
\* columns; otherwise per column the count of non-missing cells (the other
\* statistics are the library's), and the correlation matrix's columns
analyze_describe(df) ==
    IF Len(df) = 0 THEN ServerError("Cannot describe a DataFrame without columns")
    ELSE Dict([describe |->
                 [i \in 1..Len(df) |->
                    <<df[i].name, Cardinality(Present(df[i].cells))>>],
               correlation |->
                 SelectSeq(columns(df),
                    LAMBDA c : \E i \in 1..Len(df) :
                        df[i].name = c /\ is_numeric_dtype(df[i].kind))])

\* df.select_dtypes(include="number").columns
numeric_cols(df) ==
    LET numeric == SelectSeq(df, LAMBDA col : KindIsNumber(col.kind))
    IN  [i \in 1..Len(numeric) |-> numeric[i].name]

\* a fault of first3: the cap of three is lost
first3_uncapped(cols) == cols

\* numeric_cols[:3]
first3(cols) == SubSeq(cols, 1, IF Len(cols) < 3 THEN Len(cols) ELSE 3)

\* df[col]: the first column of that name
column(df, col) == df[CHOOSE i \in 1..Len(df) : df[i].name = col]

\* the archive: one <col>.png per selected column, the histogram of its
\* non-missing values
zip_entries(df, cols) ==
    [i \in 1..Len(cols) |->
        [filename |-> cols[i] \o <<".","p","n","g">>,
         title |-> cols[i],
         values |-> SortedValues(column(df, cols[i]).cells,
                                 Present(column(df, cols[i]).cells))]]

analyze_visualize(df) ==
    IF Len(numeric_cols(df)) = 0
    THEN HTTPException(400, "No numeric columns to visualize.")
    ELSE StreamingResponse(
            [zip |-> zip_entries(df, first3(numeric_cols(df)))], "application/zip",
            { <<"Content-Disposition", <<"attachment; filename=", "charts.zip">> >> })

\* pd.DataFrame({target: [mean_value]})
forecast_df(df, target) ==
    << [name |-> target, kind |-> "f",
        cells |-> << IF mean(column(df, target).cells) = Missing THEN Missing
                     ELSE << mean(column(df, target).cells) >> >>] >>

analyze_forecast(df, target) ==
    IF ~(\E i \in 1..Len(df) : df[i].name = target)
    THEN HTTPException(400, "Column not found in dataset.")
    ELSE IF ~is_numeric_dtype(column(df, target).kind)
    THEN HTTPException(400, "Column must be numeric for forecasting.")
    ELSE StreamingResponse(
            [xlsx |-> forecast_df(df, target)], XlsxMediaType,
            { <<"Content-Disposition",
                <<"attachment; filename=", "forecast_">> \o target \o <<".xlsx">> >> })

(***************************************************************************)
(* agent_bot/main.py: the command dispatcher and the routes.               *)
(***************************************************************************)
\* Optional values: None is <<>>, a value v is <<v>>
None == <<>>

Some(v) == <<v>>

NoDataMessage == "No data uploaded yet. Please upload a dataset first."

TargetPrompt == "Please specify the target column, e.g. 'forecast target=Sales'"

HelpMessage ==
    "Unrecognized command. Available commands: summary, clean, describe, visualize, forecast target=<column>"

\* one invocation of a task handler
Call(handler, df, target) == [handler |-> handler, df |-> df, target |-> target]

\* a fault of first_target: the loop does not break, so the last part that
\* starts with "target=" wins
RECURSIVE last_target(_)
last_target(parts) ==
    IF parts = <<>> THEN None
    ELSE IF last_target(Tail(parts)) # None THEN last_target(Tail(parts))
    ELSE IF startswith(parts[1], W_target)
    THEN Some(SubSeq(parts[1], Len(W_target) + 1, Len(parts[1])))
    ELSE None

\* the loop over parts[1:]: the text after "target=" of the first part that
\* starts with it, None when no part does
RECURSIVE first_target(_)
first_target(parts) ==
    IF parts = <<>> THEN None
    ELSE IF startswith(parts[1], W_target)
    THEN Some(SubSeq(parts[1], Len(W_target) + 1, Len(parts[1])))
    ELSE first_target(Tail(parts))

\* `not target`: None or the empty string
target_is_falsy(target) == target = None \/ target[1] = <<>>

\* a fault of analyze_clean: it fills the caller's table, not a copy
df_after_clean_in_place(df) == cleaned_table(df)

\* the table object the caller passed, after analyze_clean has returned:
\* the handler fills a copy
df_after_clean(df) == df

\* a fault of the keyword test: the whole command must be the keyword
matches_exact(cmd, word) == cmd = word

\* cmd.startswith(word)
matches(cmd, word) == startswith(cmd, word)

\* the elif chain of process_command on the table df: what is returned (or
\* raised), the handlers invoked and the table df holds afterwards
dispatch(df, command) ==
    LET cmd == lower(strip(command))
    IN  IF matches(cmd, W_summary)
        THEN [result |-> Dict([summary |-> analyze_summary(df)]),
              calls |-> <<Call("summary", df, <<>>)>>, df |-> df]
        ELSE IF matches(cmd, W_clean)
        THEN [result |-> analyze_clean(df),
              calls |-> <<Call("clean", df, <<>>)>>, df |-> df_after_clean(df)]
        ELSE IF matches(cmd, W_describe)
        THEN [result |-> analyze_describe(df),
              calls |-> <<Call("describe", df, <<>>)>>, df |-> df]
        ELSE IF matches(cmd, W_visualize)
        THEN [result |-> analyze_visualize(df),
              calls |-> <<Call("visualize", df, <<>>)>>, df |-> df]
        ELSE IF matches(cmd, W_forecast)
        THEN IF target_is_falsy(first_target(Tail(split(cmd))))
             THEN [result |-> Dict([message |-> TargetPrompt]),
                   calls |-> <<>>, df |-> df]
             ELSE [result |-> analyze_forecast(df, first_target(Tail(split(cmd)))[1]),
                   calls |-> <<Call("forecast", df, first_target(Tail(split(cmd)))[1])>>,
                   df |-> df]
        ELSE [result |-> Dict([message |-> HelpMessage]), calls |-> <<>>, df |-> df]

\* a fault of process_command: the test for an empty slot is lost and the
\* dispatch runs on a table without columns
process_command_unchecked(slot, command) ==
    LET out == dispatch(IF slot = None THEN <<>> ELSE slot[1], command)
    IN  [result |-> out.result, calls |-> out.calls, slot |-> slot]

\* process_command on the slot's content: the advisory when the slot is
\* empty, the dispatch otherwise
process_command(slot, command) ==
    IF slot = None
    THEN [result |-> Dict([message |-> NoDataMessage]), calls |-> <<>>, slot |-> slot]
    ELSE LET out == dispatch(slot[1], command)
         IN  [result |-> out.result, calls |-> out.calls, slot |-> Some(out.df)]

\* a fault of upload_file: the slot is cleared before the file is decoded
upload_slot_reset(slot, file) ==
    IF load_dataframe(file).ok THEN Some(load_dataframe(file).df) ELSE None

\* the slot after upload_file has run on a file
upload_slot(slot, file) ==
    IF load_dataframe(file).ok THEN Some(load_dataframe(file).df) ELSE slot

\* the response of upload_file
upload_response(file) ==
    IF load_dataframe(file).ok
    THEN JSONResponse([message |-> "Uploaded '{file.filename}' successfully! Now you can send commands.",
                       filename |-> file.filename])
    ELSE load_dataframe(file).error

\* the response of chat: a dict is wrapped, anything else goes out as it is
chat_response(result) ==
    IF result.class = "dict" THEN JSONResponse(result.content) ELSE result

(***************************************************************************)
(* app/main.py: POST /analyze.                                             *)
(***************************************************************************)
\* os.environ.get("APP_KEY", "")
_get_app_key(env) == IF env.APP_KEY = None THEN "" ELSE env.APP_KEY[1]

\* the key check: [ok |-> FALSE] is raise HTTPException(401)
key_accepted(env, header_key) ==
    IF env.REQUIRE_APP_KEY = Some("1")
    THEN ~( header_key = None \/ header_key[1] = ""
            \/ header_key[1] # _get_app_key(env) )
    ELSE TRUE

\* the decoding of the request's file; HTTPException is an Exception, so the
\* raise in the else branch is caught and raised again as 400 too
app_load(file) ==
    LET filename == lower(file.filename)
    IN  IF endswith(filename, W_xlsx) \/ endswith(filename, W_xls) THEN read_excel(file)
        ELSE IF endswith(filename, W_csv) THEN read_csv(file)
        ELSE [ok |-> FALSE, df |-> <<>>]

app_clean(df, file) ==
    StreamingResponse(
        [xlsx |-> cleaned_table(df)], XlsxMediaType,
        { <<"x-summary", <<"Cleaned ">> \o file.filename>> })

app_visualize(df, file) ==
    IF Len(numeric_cols(df)) = 0
    THEN HTTPException(400, "No numeric columns available for visualization.")
    ELSE StreamingResponse(
            [zip |-> zip_entries(df, first3(numeric_cols(df)))], "application/zip",
            { <<"Content-Disposition",
                <<"attachment; filename=", "\"">> \o rsplitStem(file.filename)
                    \o <<"_charts.zip", "\"">> >> })

app_forecast(df, target) ==
    IF target = None
    THEN HTTPException(400, "Please specify a target column for forecasting")
    ELSE IF ~(\E i \in 1..Len(df) : df[i].name = target[1])
    THEN HTTPException(400, "Target column not found in the dataset.")
    ELSE IF ~is_numeric_dtype(column(df, target[1]).kind)
    THEN HTTPException(400, "Target column must be numeric for forecasting.")
    ELSE StreamingResponse(
            [xlsx |-> forecast_df(df, target[1])], XlsxMediaType,
            { <<"x-summary", <<"Forecasted mean for column '">> \o target[1] \o <<"'">> >> })

\* the task branches, on the normalized task name
app_task(df, task, r) ==
    IF task = W_summary
    THEN [resp |-> JSONResponse([summary |-> analyze_summary(df)]),
          calls |-> <<Call("summary", df, <<>>)>>]
    ELSE IF task = W_clean
    THEN [resp |-> app_clean(df, r.file[1]), calls |-> <<Call("clean", df, <<>>)>>]
    ELSE IF task = W_describe
    THEN [resp |-> chat_response(analyze_describe(df)),
          calls |-> <<Call("describe", df, <<>>)>>]
    ELSE IF task = W_visualize
    THEN [resp |-> app_visualize(df, r.file[1]),
          calls |-> <<Call("visualize", df, <<>>)>>]
    ELSE IF task = W_forecast
    THEN [resp |-> app_forecast(df, r.target),
          calls |-> <<Call("forecast", df, IF r.target = None THEN <<>> ELSE r.target[1])>>]
    ELSE [resp |-> HTTPException(400, "Unknown task"), calls |-> <<>>]

\* analyze_excel on a request r: the response, the decoders tried and the
\* task branches run
analyze_excel(env, r) ==
    IF r.file = None
    THEN [resp |-> HTTPException(400, "No file provided"),
          decodes |-> <<>>, calls |-> <<>>]
    ELSE IF ~key_accepted(env, r.header_key)
    THEN [resp |-> HTTPException(401, "Unauthorized"), decodes |-> <<>>, calls |-> <<>>]
    ELSE IF ~app_load(r.file[1]).ok
    THEN [resp |-> HTTPException(400, "Failed to read file"),
          decodes |-> load_decodes(r.file[1]), calls |-> <<>>]
    ELSE LET out == app_task(app_load(r.file[1]).df, strip(lower(r.task)), r)
         IN  [resp |-> out.resp, decodes |-> load_decodes(r.file[1]),
              calls |-> out.calls]

(***************************************************************************)
(* The state machine.  svc is the service the process runs.  req, resp,    *)
(* calls and decodes record the request handled last, its response, the    *)
(* task handlers it invoked and the decoders it tried.  lastUpload is the  *)
(* table the most recent successful /upload decoded.  pending holds the    *)
(* chat-service requests that have arrived (their bodies are being read by *)
(* the HTTP layer) and whose handlers have not run yet.                    *)
(***************************************************************************)
\* the environment of the process: the key check off; on with APP_KEY set;
\* on with APP_KEY unset
Environs ==
    { [REQUIRE_APP_KEY |-> None, APP_KEY |-> None],
      [REQUIRE_APP_KEY |-> Some("1"), APP_KEY |-> Some("k")],
      [REQUIRE_APP_KEY |-> Some("1"), APP_KEY |-> None] }

\* values of the X-App-Key header: absent, empty, the key, another key
HeaderKeys == {None, Some(""), Some("k"), Some("x")}

\* values of the task form field
Tasks ==
    { W_summary, <<" ","C","l","e","a","n">>, W_describe, W_visualize, W_forecast,
      W_clean \o <<"u","p">> }

\* values of the target form field
Targets == {None, Some(ColName(1)), Some(ColName(2))}

\* files whose name fits what their bytes are, files named .txt, and files
\* of bytes that no decoder reads
RequestFiles ==
    { f \in Files :
        \/ f.format = "csv"  /\ f.filename \in {F_csv, F_txt}
        \/ f.format = "xlsx" /\ f.filename \in {F_XLSX, F_xls}
        \/ f.format = "junk" }

AnalyzeRequests ==
    { [endpoint |-> "/analyze", header_key |-> h, task |-> t, file |-> f, target |-> g] :
        h \in HeaderKeys, t \in Tasks, g \in Targets,
        f \in {None} \cup { Some(x) : x \in RequestFiles } }

Init ==
    /\ svc \in {"agent_bot", "app"}
    /\ environ \in IF svc = "app" THEN Environs
                   ELSE { [REQUIRE_APP_KEY |-> None, APP_KEY |-> None] }
    /\ _dataframe = None
    /\ pending = <<>>
    /\ req = [endpoint |-> "-"]
    /\ resp = [class |-> "-"]
    /\ calls = <<>>
    /\ decodes = <<>>
    /\ lastUpload = None

\* a chat-service request as it arrives: a /chat request notes the slot's
\* content and whether an upload has succeeded before it started
ChatRequest(message) ==
    [endpoint |-> "/chat", message |-> message,
     seen |-> {_dataframe}, after_upload |-> lastUpload # None]

UploadRequest(file) == [endpoint |-> "/upload", file |-> file]

\* the waiting /chat requests note the content the slot has now
Observe(waiting, slot) ==
    IF waiting = <<>> THEN <<>> ELSE
    [i \in 1..Len(waiting) |->
        IF waiting[i].endpoint = "/chat"
        THEN [waiting[i] EXCEPT !.seen = @ \cup {slot}]
        ELSE waiting[i]]

\* upload_file runs on request r, to completion; the others keep waiting
RunUpload(r, waiting) ==
    /\ _dataframe' = upload_slot(_dataframe, r.file)
    /\ lastUpload' = IF load_dataframe(r.file).ok
                     THEN Some(load_dataframe(r.file).df) ELSE lastUpload
    /\ resp' = upload_response(r.file)
    /\ calls' = <<>>
    /\ decodes' = load_decodes(r.file)
    /\ req' = r
    /\ pending' = Observe(waiting, _dataframe')
    /\ UNCHANGED <<svc, environ>>

\* chat runs on request r, to completion; the others keep waiting
RunChat(r, waiting) ==
    LET out == process_command(_dataframe, r.message)
    IN  /\ _dataframe' = out.slot
        /\ resp' = chat_response(out.result)
        /\ calls' = out.calls
        /\ decodes' = <<>>
        /\ req' = r
        /\ pending' = Observe(waiting, _dataframe')
        /\ UNCHANGED <<svc, environ, lastUpload>>

\* no request is being answered
Idle == req.endpoint = "-"

\* POST /upload, handled as it arrives
upload_file(file) ==
    /\ RunUpload(UploadRequest(file), <<>>)

\* POST /chat, handled as it arrives
chat(message) ==
    /\ RunChat(ChatRequest(message), <<>>)

\* POST /analyze
analyze(r) ==
    /\ resp' = analyze_excel(environ, r).resp
    /\ calls' = analyze_excel(environ, r).calls
    /\ decodes' = analyze_excel(environ, r).decodes
    /\ req' = r
    /\ UNCHANGED <<svc, environ, _dataframe, pending, lastUpload>>

\* the response has gone out: the request and what was built for it are
\* discarded, the slot stays
respond ==
    /\ ~Idle
    /\ req' = [endpoint |-> "-"]
    /\ resp' = [class |-> "-"]
    /\ calls' = <<>>
    /\ decodes' = <<>>
    /\ UNCHANGED <<svc, environ, _dataframe, pending, lastUpload>>

\* the chat service takes a request when none is being answered
ChatServiceIdle == svc = "agent_bot" /\ Idle /\ pending = <<>>

Next ==
    \/ ChatServiceIdle /\ \E file \in RequestFiles : upload_file(file)
    \/ ChatServiceIdle /\ \E message \in Messages : chat(message)
    \/ svc = "app" /\ Idle /\ \E r \in AnalyzeRequests : analyze(r)
    \/ respond

Spec == Init /\ [][Next]_vars

(***************************************************************************)
(* Concurrent requests on the chat service.  Both routes are coroutines    *)
(* without an await in them, so the event loop runs each handler to        *)
(* completion; requests whose bodies are still being read wait, and their  *)
(* handlers run in any order.                                              *)
(***************************************************************************)
ConcTables ==
    { << [name |-> ColName(1), kind |-> "f", cells |-> << <<2>> >>] >>,
      << [name |-> ColName(1), kind |-> "f", cells |-> << Missing, <<0>> >>] >> }

ConcFiles ==
    { [filename |-> F_csv, format |-> "csv", table |-> t] : t \in ConcTables }
    \cup { [filename |-> F_csv, format |-> "junk", table |-> <<>>] }

ConcMessages ==
    { W_summary, W_clean, W_forecast \o <<" ">> \o W_target \o ColName(1), <<"h","i">> }

InitConc == Init /\ svc = "agent_bot"

ArriveUpload(file) ==
    /\ Len(pending) < MaxPending
    /\ pending' = Append(pending, UploadRequest(file))
    /\ UNCHANGED <<svc, environ, _dataframe, req, resp, calls, decodes, lastUpload>>

ArriveChat(message) ==
    /\ Len(pending) < MaxPending
    /\ pending' = Append(pending, ChatRequest(message))
    /\ UNCHANGED <<svc, environ, _dataframe, req, resp, calls, decodes, lastUpload>>

\* the waiting requests without the i-th
Without(waiting, i) ==
    SubSeq(waiting, 1, i - 1) \o SubSeq(waiting, i + 1, Len(waiting))

\* the event loop runs the handler of a waiting request
RunPending(i) ==
    /\ Idle
    /\ i \in 1..Len(pending)
    /\ IF pending[i].endpoint = "/upload"
       THEN RunUpload(pending[i], Without(pending, i))
       ELSE RunChat(pending[i], Without(pending, i))

NextConc ==
    \/ \E file \in ConcFiles : ArriveUpload(file)
    \/ \E message \in ConcMessages : ArriveChat(message)
    \/ \E i \in 1..MaxPending : RunPending(i)
    \/ respond

SpecConc == InitConc /\ [][NextConc]_vars

(***************************************************************************)
(* The claims.                                                             *)
(***************************************************************************)
\* the request handled last is a /chat request of the chat service
ChatDone == svc = "agent_bot" /\ req.endpoint = "/chat"

\* the last request ran the handler of a task, in either service
Ran(handler) == calls # <<>> /\ calls[1].handler = handler

\* the tokens of the trimmed, case-folded message of the last /chat request
Tokens == split(lower(strip(req.message)))

\* a response that is the JSON message text
IsMessage(text) == resp = JSONResponse([message |-> text])

\* C1: the slot of the chat service holds exactly the table the most recent
\* successful /upload decoded, and is empty when none has succeeded: failed
\* uploads and chat commands, clean among them, leave it as it was.
C1_SlotIsLastUpload == svc = "agent_bot" => _dataframe = lastUpload

\* C1 witness: clean has run on an uploaded table that has missing cells it
\* fills, after which the slot still holds the uploaded table.
C1_Witness ==
    /\ ChatDone /\ Ran("clean")
    /\ lastUpload # None
    /\ cleaned_table(lastUpload[1]) # lastUpload[1]
    /\ resp.class = "StreamingResponse"

\* C2: while no upload has succeeded, every chat message is answered with
\* the no-data advisory as an ordinary JSON response, and no task handler
\* is invoked.
C2_NoDataAdvisory ==
    (ChatDone /\ lastUpload = None) =>
        /\ IsMessage(NoDataMessage)
        /\ resp.status_code = 200
        /\ calls = <<>>

\* C2 witness: a forecast command with a target, sent before any upload.
C2_Witness ==
    /\ ChatDone /\ lastUpload = None
    /\ req.message = W_forecast \o <<" ">> \o W_target \o ColName(2)
    /\ IsMessage(NoDataMessage)

\* C3: with the key check on, every /analyze request whose X-App-Key is
\* absent or differs from APP_KEY is answered 401, whatever its other
\* fields, and nothing is decoded and no task runs for it.
C3_BadKeyIs401 ==
    ( /\ svc = "app" /\ req.endpoint = "/analyze"
      /\ environ.REQUIRE_APP_KEY = Some("1")
      /\ (req.header_key = None \/ req.header_key[1] # _get_app_key(environ)) )
    => (resp.status_code = 401 /\ decodes = <<>> /\ calls = <<>>)

\* C4: with a table loaded, the message "forecast target=C" for a column
\* name C of any letter case invokes the Forecast handler with target
\* exactly C, so that a numeric column C is forecast and not rejected.
C4_TargetIsColumnName ==
    (ChatDone /\ _dataframe # None) =>
        \A i \in 1..Len(_dataframe[1]) :
            LET C == _dataframe[1][i].name
            IN  req.message = W_forecast \o <<" ">> \o W_target \o C
                => /\ calls = <<Call("forecast", _dataframe[1], C)>>
                   /\ (is_numeric_dtype(_dataframe[1][i].kind)
                        => resp.class = "StreamingResponse")

\* among tokens toks, the later ones that start with "target=", and those
\* of them that name a target
TargetTokens(toks) == {i \in 2..Len(toks) : startswith(toks[i], W_target)}

NamedTargetTokens(toks) ==
    {i \in TargetTokens(toks) : Len(toks[i]) > Len(W_target)}

\* the name in the first later token that starts with "target=", <<>> when
\* there is no such token or it names nothing
FirstTargetName(toks) ==
    LET tt == TargetTokens(toks)
    IN  IF tt = {} THEN <<>>
        ELSE LET first == CHOOSE i \in tt : \A j \in tt : i <= j
             IN  SubSeq(toks[first], Len(W_target) + 1, Len(toks[first]))

\* C5: with a table loaded, a message that starts with "forecast" and has no
\* later token target=<non-empty name> gets the prompt for the target as an
\* ordinary response and the Forecast handler is not invoked; of several
\* target= tokens the first is the one used.
C5_ForecastNeedsTarget ==
    (ChatDone /\ _dataframe # None) =>
        LET toks == Tokens
            name == FirstTargetName(toks)
        IN  (toks # <<>> /\ startswith(toks[1], W_forecast)) =>
              /\ NamedTargetTokens(toks) = {}
                    => ( /\ IsMessage(TargetPrompt)
                         /\ resp.status_code = 200
                         /\ calls = <<>> )
              /\ TargetTokens(toks) # {}
                    => IF name = <<>> THEN IsMessage(TargetPrompt) /\ calls = <<>>
                       ELSE calls = <<Call("forecast", _dataframe[1], name)>>

\* C5 witness: "forecast target= TARGET=a" on a loaded table: the first
\* target= token names nothing, and the prompt is returned.
C5_Witness ==
    /\ ChatDone /\ _dataframe # None
    /\ req.message = W_forecast \o <<" ">> \o W_target \o <<" ">>
                     \o <<"T","A","R","G","E","T","=">> \o ColName(1)
    /\ IsMessage(TargetPrompt)
    /\ calls = <<>>

\* the handler name of a keyword
HandlerOf(word) ==
    CASE word = W_summary -> "summary" [] word = W_clean -> "clean"
      [] word = W_describe -> "describe" [] word = W_visualize -> "visualize"
      [] word = W_forecast -> "forecast"

\* the first of tokens toks, <<>> when there is none
FirstToken(toks) == IF toks = <<>> THEN <<>> ELSE toks[1]

\* the keywords the first token matches (as a prefix of it)
Matched(toks) == {w \in Keywords : startswith(FirstToken(toks), w)}

\* C6 as stated: with a table loaded, a message whose first token matches no
\* keyword gets the help message as an ordinary response and no handler
\* runs, and a message whose first token matches a keyword invokes exactly
\* that keyword's handler.
C6_AsStated ==
    (ChatDone /\ _dataframe # None) =>
        LET hit == Matched(Tokens)
        IN  /\ hit = {}
                => (IsMessage(HelpMessage) /\ resp.status_code = 200 /\ calls = <<>>)
            /\ \A w \in hit : Len(calls) = 1 /\ calls[1].handler = HandlerOf(w)

\* C6 amended: with a table loaded, a message whose first token starts with
\* no keyword gets the help message as an ordinary response and no handler
\* runs; a message whose first token starts with a keyword invokes that
\* keyword's handler once and no other, except that a forecast message whose
\* first later target= token is absent or names nothing invokes no handler
\* and returns the prompt.
C6_Amended ==
    (ChatDone /\ _dataframe # None) =>
        LET toks == Tokens
            hit  == Matched(toks)
            name == FirstTargetName(toks)
        IN  /\ hit = {}
                => (IsMessage(HelpMessage) /\ resp.status_code = 200 /\ calls = <<>>)
            /\ \A w \in hit :
                IF w = W_forecast /\ name = <<>>
                THEN IsMessage(TargetPrompt) /\ resp.status_code = 200 /\ calls = <<>>
                ELSE Len(calls) = 1 /\ calls[1].handler = HandlerOf(w)

\* C6 witness: a message whose first token is "cleanup" has run the Clean
\* handler.
C6_Witness ==
    /\ ChatDone /\ _dataframe # None
    /\ FirstToken(Tokens) = W_clean \o <<"u","p">>
    /\ Ran("clean")

\* C7: every binary response of either service carries a Content-Disposition
\* header of the form attachment; filename=..., Clean and Forecast with the
\* spreadsheet media type and Visualize with the ZIP media type.
C7_BinaryIsAttachment ==
    resp.class = "StreamingResponse" =>
        /\ \E h \in resp.headers :
              /\ h[1] = "Content-Disposition"
              /\ Len(h[2]) > 1
              /\ h[2][1] = "attachment; filename="
        /\ (Ran("clean") \/ Ran("forecast")) => resp.media_type = XlsxMediaType
        /\ Ran("visualize") => resp.media_type = "application/zip"

\* C8: for every table and every numeric column of it, one whose cells are
\* all missing included, the Clean output has the shape and column order of
\* the table, the column has no missing cell, every cell that was missing
\* holds the median of the column's non-missing values, and every other cell
\* is unchanged.
C8_CleanFillsNumeric ==
    (Ran("clean") /\ resp.class = "StreamingResponse") =>
        LET df  == calls[1].df
            out == resp.content.xlsx
        IN  /\ Len(out) = Len(df)
            /\ \A j \in 1..Len(df) :
                /\ out[j].name = df[j].name
                /\ Len(out[j].cells) = Len(df[j].cells)
                /\ KindIsBiufc(df[j].kind) =>
                     \A i \in 1..Len(df[j].cells) :
                        /\ ~isnull(out[j].cells[i])
                        /\ IF isnull(df[j].cells[i])
                           THEN out[j].cells[i] = median(df[j].cells)
                           ELSE out[j].cells[i] = df[j].cells[i]

\* the positions of the numeric columns of the table Visualize ran on
VizNumeric == {j \in 1..Len(calls[1].df) : KindIsNumber(calls[1].df[j].kind)}

\* C9: on a table with n numeric columns Visualize answers 400 and builds no
\* archive when n = 0, and otherwise returns a ZIP of exactly min(n, 3)
\* entries, <column>.png for the first min(n, 3) numeric columns in the
\* table's column order, non-numeric columns between them skipped.
C9_VisualizeArchive ==
    Ran("visualize") =>
        LET df      == calls[1].df
            n       == Cardinality(VizNumeric)
            k       == IF n < 3 THEN n ELSE 3
            rank(j) == Cardinality({i \in VizNumeric : i <= j})
        IN  IF n = 0
            THEN resp.class = "HTTPException" /\ resp.status_code = 400
            ELSE /\ resp.class = "StreamingResponse"
                 /\ resp.media_type = "application/zip"
                 /\ Len(resp.content.zip) = k
                 /\ \A j \in VizNumeric :
                      rank(j) <= k =>
                        resp.content.zip[rank(j)].filename
                            = df[j].name \o <<".","p","n","g">>

\* C9 witness: Visualize has run on a table of four or more numeric columns
\* with a non-numeric column before the third of them, and returned three
\* entries.
C9_Witness ==
    /\ Ran("visualize")
    /\ Cardinality(VizNumeric) >= 4
    /\ \E j \in 1..Len(calls[1].df) :
          /\ j \notin VizNumeric
          /\ Cardinality({i \in VizNumeric : i < j}) \in {1, 2}
    /\ resp.class = "StreamingResponse"
    /\ Len(resp.content.zip) = 3

\* C10: under every interleaving of /upload and /chat requests, a /chat
\* response that runs a handler is computed from one table, which was the
\* slot's content at some moment of that request, and a /chat request that
\* started after an upload succeeded never gets the no-data advisory.
C10_OneTablePerChat ==
    ChatDone =>
        /\ calls # <<>> =>
              /\ Len(calls) = 1
              /\ Some(calls[1].df) \in req.seen
              /\ resp = chat_response(dispatch(calls[1].df, req.message).result)
        /\ req.after_upload => ~IsMessage(NoDataMessage)

\* C10 witness: a /chat request arrived, an upload replaced the slot's
\* content while it waited, and its handler ran on the new table.
C10_Witness ==
    /\ ChatDone /\ calls # <<>>
    /\ Cardinality(req.seen) >= 2
    /\ None \notin req.seen
    /\ Some(calls[1].df) = _dataframe

=============================================================================
